---- MODULE Spec2Model ----
(***************************************************************************)
(* State-machine model of server/app.py: the MNIST digit recognition API.  *)
(*                                                                         *)
(* The process loads a Keras model once at import time (LoadModel) and     *)
(* then serves three routes: POST /predict (Predict), POST /feedback       *)
(* (Feedback) and GET / (Root).                                            *)
(*                                                                         *)
(* Numbers.  Classifier scores and confidences are integers counting       *)
(* units of 10^-(Decimals+1), so 0.99 is 9900 and 1.0 is 10000.  Pixel     *)
(* values are integers counting units of 2^-F32Mantissa, so 1.0 is 2^24;   *)
(* every such integer below 2^53 is an exact Python float, and the ones    *)
(* that need more than 24 significant bits are not exact in float32.       *)
(* JSON null / Python None in an Optional[int] field is the empty          *)
(* sequence, and the integer v in such a field is <<v>>.                   *)
(***************************************************************************)
EXTENDS Integers, Sequences, FiniteSets, TLC

VARIABLES
    pc,         \* "loading" while the module body runs, then "serving"
    artifact,   \* what is stored at MODEL_PATH: "missing", "corrupt" or a classifier
    model,      \* the module-level name `model`: None or the loaded classifier
    dataPath,   \* what the path "data" is in the working directory
    request,    \* the request being answered (last one handled)
    response,   \* the response sent for it
    steps,      \* the handler steps executed for it, in order
    inferred    \* history: <<pixels, response, nth>> for each answer of the `if model:` branch

vars == <<pc, artifact, model, dataPath, request, response, steps, inferred>>

-----------------------------------------------------------------------------
(* Program constants *)

NumPixels == 784            \* Field(..., min_length=784, max_length=784)
Side == 28                  \* reshape(1, 28, 28, 1)
NumClasses == 10            \* np.random.randint(0, 10); ten output classes
Decimals == 3               \* round(confidence, 3)
FallbackConfidence == 9900  \* confidence = 0.99
F32Mantissa == 24           \* dtype=np.float32: 24 significant bits

(* Model bounds *)

MaxDelta == 1               \* predict lengths tried: 0 and 784-MaxDelta .. 784+MaxDelta
MaxFeedbackLen == 2         \* feedback pixel lists of length 0 .. MaxFeedbackLen

-----------------------------------------------------------------------------
(* Arithmetic helpers *)

RECURSIVE Pow(_, _)
Pow(b, n) == IF n = 0 THEN 1 ELSE b * Pow(b, n - 1)

UnitsPerOne == Pow(10, Decimals + 1)
PixelOne == Pow(2, F32Mantissa)

\* Nearest multiple of step to x, exact halves going to the even multiple.
RoundHalfEven(x, step) ==
    LET q == x \div step
        r == x % step
    IN  IF 2 * r < step THEN q * step
        ELSE IF 2 * r > step THEN (q + 1) * step
        ELSE IF q % 2 = 0 THEN q * step
        ELSE (q + 1) * step

\* Python's round(x, ndigits) on a float: round-half-even on the exact value.
round(x, ndigits) == RoundHalfEven(x, UnitsPerOne \div Pow(10, ndigits))

\* Spacing of float32 values around v (v >= 0, in units of 2^-F32Mantissa).
RECURSIVE Float32Spacing(_, _)
Float32Spacing(v, s) ==
    IF v \div s < PixelOne THEN s ELSE Float32Spacing(v, 2 * s)

\* np.array(..., dtype=np.float32) applied to one Python float.
AsFloat32(v) == RoundHalfEven(v, Float32Spacing(v, 1))

None == "None"
Null == <<>>
Some(v) == <<v>>

Range(s) == {s[i] : i \in DOMAIN s}

-----------------------------------------------------------------------------
(* Request schemas *)

\* Variant of the schema with the upper length limit left out.
ValidPredictRequestMinOnly(body) ==
    /\ "pixels" \in DOMAIN body
    /\ Len(body.pixels) >= NumPixels

\* PredictRequest: pixels: List[float] = Field(..., min_length=784, max_length=784)
ValidPredictRequest(body) ==
    /\ "pixels" \in DOMAIN body
    /\ Len(body.pixels) >= NumPixels
    /\ Len(body.pixels) <= NumPixels

\* FeedbackRequest: pixels, predicted_digit and correct are required,
\* correct_digit: Optional[int] = None
ValidFeedbackRequest(body) ==
    {"pixels", "predicted_digit", "correct"} \subseteq DOMAIN body

\* FeedbackRequest(...).dict(): the four fields, the default filled in
FeedbackDict(body) ==
    [pixels          |-> body.pixels,
     predicted_digit |-> body.predicted_digit,
     correct         |-> body.correct,
     correct_digit   |-> IF "correct_digit" \in DOMAIN body
                         THEN body.correct_digit ELSE Null]

-----------------------------------------------------------------------------
(* Responses *)

Ok(body) == [status |-> "ok", body |-> body]
ValidationError(field) == [status |-> "validation_error", body |-> [field |-> field]]
ServerError == [status |-> "server_error", body |-> [detail |-> "Internal Server Error"]]
NoResponse == [status |-> "none"]
NoRequest == [op |-> "none"]

-----------------------------------------------------------------------------
(* The classifier: an opaque deterministic function of the input tensor.  *)
(* Three classifiers stand for what load_model can return.                 *)

Classifiers == {"softmax", "relu", "mismatched"}
Artifacts == {"missing", "corrupt"} \cup Classifiers

Peak(d, hi, lo) == [k \in 0..(NumClasses - 1) |-> IF k = d THEN hi ELSE lo]

\* model.predict raising: a network whose input layer rejects (1, 28, 28, 1)
InferRaises(m, tensor) == m = "mismatched"

\* model.predict(pixels)[0]: ten scores, as a function of the tensor.
\* "softmax" has calibrated outputs in [0,1] (one of them a two-way tie, one
\* the dyadic value 0.3125); "relu" has a linear output layer, non-negative
\* and unbounded.
Infer(m, tensor) ==
    LET first == tensor[<<0, 0, 0, 0>>]
        last  == tensor[<<0, Side - 1, Side - 1, 0>>]
    IN  IF m = "softmax"
        THEN IF first > last THEN Peak(7, 8128, 208)
             ELSE IF first < last THEN Peak(4, 3125, 625)
             ELSE [k \in 0..(NumClasses - 1) |-> IF k \in {3, 8} THEN 4000 ELSE 250]
        ELSE IF first > last THEN Peak(2, 25000, 0)
             ELSE IF first < last THEN Peak(9, 9996, 13)
             ELSE Peak(0, 0, 0)

-----------------------------------------------------------------------------
(* numpy *)

\* np.array(req.pixels, dtype=np.float32).reshape(1, 28, 28, 1): row-major
reshape(pixels) ==
    [ix \in (0..0) \X (0..(Side - 1)) \X (0..(Side - 1)) \X (0..0) |->
        AsFloat32(pixels[ix[2] * Side + ix[3] + 1])]

\* np.argmax: scan left to right, keep the first maximum
RECURSIVE ArgmaxScan(_, _, _)
ArgmaxScan(preds, i, best) ==
    IF i = NumClasses THEN best
    ELSE ArgmaxScan(preds, i + 1, IF preds[i] > preds[best] THEN i ELSE best)

\* Variant of the scan that keeps the last maximum.
RECURSIVE ArgmaxScanLast(_, _, _)
ArgmaxScanLast(preds, i, best) ==
    IF i = NumClasses THEN best
    ELSE ArgmaxScanLast(preds, i + 1, IF preds[i] >= preds[best] THEN i ELSE best)

argmaxLast(preds) == ArgmaxScanLast(preds, 1, 0)

argmax(preds) == ArgmaxScan(preds, 1, 0)

\* np.max
RECURSIVE MaxScan(_, _, _)
MaxScan(preds, i, best) ==
    IF i = NumClasses THEN best
    ELSE MaxScan(preds, i + 1, IF preds[i] > best THEN preds[i] ELSE best)

amax(preds) == MaxScan(preds, 1, preds[0])

\* Variant of the draw with the upper limit included.
RandDigitsInclusive == 0..NumClasses

\* np.random.randint(0, 10): low inclusive, high exclusive
RandDigits == 0..(NumClasses - 1)

-----------------------------------------------------------------------------
(* POST /predict: the outcome for classifier reference m, request body     *)
(* `body` and random draw rnd.                                             *)

PredictResult(digit, confidence) ==
    Ok([prediction |-> digit, confidence |-> round(confidence, Decimals)])

\* Variant of the handler that falls back when inference raises.
predictMasked(m, body, rnd) ==
    IF ~ValidPredictRequest(body)
    THEN [response |-> ValidationError("pixels"), steps |-> <<>>]
    ELSE LET tensor == reshape(body.pixels) IN
         IF m # None /\ ~InferRaises(m, tensor)
         THEN [response |-> PredictResult(argmax(Infer(m, tensor)), amax(Infer(m, tensor))),
               steps |-> <<"reshape", "infer">>]
         ELSE [response |-> PredictResult(rnd, FallbackConfidence),
               steps |-> IF m # None THEN <<"reshape", "infer", "fallback">>
                         ELSE <<"reshape", "fallback">>]

\* Variant of the handler whose answer depends on the calls made so far.
predictStateful(m, body, rnd) ==
    IF ~ValidPredictRequest(body)
    THEN [response |-> ValidationError("pixels"), steps |-> <<>>]
    ELSE LET tensor == reshape(body.pixels) IN
         IF m # None
         THEN IF InferRaises(m, tensor)
              THEN [response |-> ServerError, steps |-> <<"reshape", "infer">>]
              ELSE [response |-> PredictResult(
                                   (argmax(Infer(m, tensor)) + Cardinality(inferred)) % NumClasses,
                                   amax(Infer(m, tensor))),
                    steps |-> <<"reshape", "infer">>]
         ELSE [response |-> PredictResult(rnd, FallbackConfidence),
               steps |-> <<"reshape", "fallback">>]

predict(m, body, rnd) ==
    IF ~ValidPredictRequest(body)
    THEN \* pydantic rejects the body; the handler is not entered
         [response |-> ValidationError("pixels"), steps |-> <<>>]
    ELSE IF Len(body.pixels) # Side * Side
    THEN \* reshape raises ValueError
         [response |-> ServerError, steps |-> <<"reshape">>]
    ELSE LET tensor == reshape(body.pixels) IN
         IF m # None
         THEN IF InferRaises(m, tensor)
              THEN [response |-> ServerError, steps |-> <<"reshape", "infer">>]
              ELSE LET preds == Infer(m, tensor)
                       digit == argmax(preds)
                       confidence == amax(preds)
                   IN  [response |-> PredictResult(digit, confidence),
                        steps |-> <<"reshape", "infer">>]
         ELSE [response |-> PredictResult(rnd, FallbackConfidence),
               steps |-> <<"reshape", "fallback">>]

-----------------------------------------------------------------------------
(* Inputs *)

PixelSeq(n, a, b) == [i \in 1..n |-> IF i = 1 THEN a ELSE b]

\* <<first pixel, every other pixel>>, drawn from 0.0, 0.5 and 1 + 2^-24
\* (above the nominal range, and not a float32 value)
PixelPatterns == {<<0, 0>>, <<PixelOne + 1, 0>>, <<PixelOne \div 2, PixelOne + 1>>}

WrongLengths == ({0} \cup ((NumPixels - MaxDelta)..(NumPixels + MaxDelta))) \ {NumPixels}

PredictBodies ==
    {[pixels |-> PixelSeq(NumPixels, p[1], p[2])] : p \in PixelPatterns}
    \cup {[pixels |-> PixelSeq(n, PixelOne \div 2, 0)] : n \in WrongLengths}

FeedbackPixels ==
    {[i \in 1..n |-> IF i % 2 = 1 THEN PixelOne + 1 ELSE 0] : n \in 0..MaxFeedbackLen}

RequiredFeedbackFields ==
    [pixels : FeedbackPixels, predicted_digit : {3, 12}, correct : BOOLEAN]

ValidFeedbackBodies ==
    RequiredFeedbackFields
    \cup {r @@ [correct_digit |-> c] : r \in RequiredFeedbackFields, c \in {Null, Some(8)}}

\* the second set lacks the required field `correct`
FeedbackBodies ==
    ValidFeedbackBodies
    \cup [pixels : FeedbackPixels, predicted_digit : {3}]

-----------------------------------------------------------------------------
(* Initial state and actions *)

Init ==
    /\ pc = "loading"
    /\ artifact \in Artifacts
    /\ model = None
    /\ dataPath \in {"absent", "dir", "unwritable"}
    /\ request = NoRequest
    /\ response = NoResponse
    /\ steps = <<>>
    /\ inferred = {}

\* Variant of the module body without the try/except: a failed load ends the process.
LoadModelUncaught ==
    /\ pc = "loading"
    /\ model' = IF artifact \in Classifiers THEN artifact ELSE model
    /\ pc' = IF artifact \in Classifiers THEN "serving" ELSE "crashed"
    /\ UNCHANGED <<artifact, dataPath, request, response, steps, inferred>>

\* Module body: model = None; try: model = load_model(MODEL_PATH) except Exception
LoadModel ==
    /\ pc = "loading"
    /\ model' = IF artifact \in Classifiers THEN artifact ELSE model
    /\ pc' = "serving"
    /\ UNCHANGED <<artifact, dataPath, request, response, steps, inferred>>

\* 1 for the first answer recorded for these pixels, 2 for a later one
Nth(pixels) == IF \E h \in inferred : h[1] = pixels THEN 2 ELSE 1

\* np.random.randint is called on the else branch only (line 57); on every
\* other path no draw is made and the handler's outcome does not use one.
Draws(m, body) ==
    IF ValidPredictRequest(body) /\ m = None THEN RandDigits ELSE {0}

\* Variant of the route that drops the classifier after a failed request.
PredictResetsModel(body) ==
    /\ pc = "serving"
    /\ \E rnd \in Draws(model, body) :
         LET out == predict(model, body, rnd) IN
           /\ response' = out.response
           /\ steps' = out.steps
           /\ model' = IF out.response.status = "server_error" THEN None ELSE model
           /\ inferred' = IF "infer" \in Range(out.steps)
                          THEN inferred \cup {<<body.pixels, out.response, Nth(body.pixels)>>}
                          ELSE inferred
    /\ request' = [op |-> "predict", body |-> body]
    /\ UNCHANGED <<pc, artifact, dataPath>>

Predict(body) ==
    /\ pc = "serving"
    /\ \E rnd \in Draws(model, body) :
         LET out == predict(model, body, rnd) IN
           /\ response' = out.response
           /\ steps' = out.steps
           /\ inferred' = IF "infer" \in Range(out.steps)
                          THEN inferred \cup {<<body.pixels, out.response, Nth(body.pixels)>>}
                          ELSE inferred
    /\ request' = [op |-> "predict", body |-> body]
    /\ UNCHANGED <<pc, artifact, model, dataPath>>

\* os.makedirs("data", exist_ok=True)
MakedirsRaises == dataPath = "unwritable"
Makedirs == IF dataPath = "absent" THEN "dir" ELSE dataPath

FeedbackMessage == "Feedback received successfully"

Feedback(body) ==
    /\ pc = "serving"
    /\ request' = [op |-> "feedback", body |-> body]
    /\ IF ~ValidFeedbackRequest(body)
       THEN /\ response' = ValidationError("correct")
            /\ steps' = <<>>
            /\ UNCHANGED dataPath
       ELSE LET feedback_data == FeedbackDict(body) IN
            IF MakedirsRaises
            THEN /\ response' = ServerError
                 /\ steps' = <<"dict", "makedirs">>
                 /\ UNCHANGED dataPath
            ELSE /\ dataPath' = Makedirs
                 /\ steps' = <<"dict", "makedirs", "print">>
                 /\ response' = Ok([message |-> FeedbackMessage, data |-> feedback_data])
    /\ UNCHANGED <<pc, artifact, model, inferred>>

RootMessage == "MNIST Handwritten Digit Recognition API is running"

Root ==
    /\ pc = "serving"
    /\ request' = [op |-> "root"]
    /\ response' = Ok([message |-> RootMessage])
    /\ steps' = <<>>
    /\ UNCHANGED <<pc, artifact, model, dataPath, inferred>>

Next ==
    \/ LoadModel
    \/ \E body \in PredictBodies : Predict(body)
    \/ \E body \in FeedbackBodies : Feedback(body)
    \/ Root

Spec == Init /\ [][Next]_vars

-----------------------------------------------------------------------------
(* Properties *)

IsPredict == request.op = "predict"
ValidPredict == IsPredict /\ Len(request.body.pixels) = NumPixels
IsFeedback == request.op = "feedback"
Tensor == reshape(request.body.pixels)
Digits == 0..9
Thousandth == UnitsPerOne \div 1000

\* The score is x and c is x rounded to three decimal places.
IsRounded3(x, c) ==
    /\ c % Thousandth = 0
    /\ 2 * (IF c >= x THEN c - x ELSE x - c) <= Thousandth

\* C1: a predict request whose pixels list is not 784 long, classifier
\* present or absent, fails with a validation error on the pixels field, and
\* neither reshape nor inference nor the fallback branch runs for it.
WrongLengthRejected ==
    (IsPredict /\ Len(request.body.pixels) # 784) =>
        /\ response.status = "validation_error"
        /\ response.body.field = "pixels"
        /\ steps = <<>>

WrongLengthRejectedWitness ==
    /\ IsPredict
    /\ Len(request.body.pixels) > 784
    /\ model # None
    /\ response.status = "validation_error"

\* C2: every predict request with exactly 784 pixels, on the fallback path
\* and for every score vector the classifier returns, is answered with a
\* prediction in 0..9 and a confidence in [0,1] with three decimal places.
PredictionWithinRanges ==
    (ValidPredict /\ (model = None \/ ~InferRaises(model, Tensor))) =>
        /\ response.status = "ok"
        /\ response.body.prediction \in Digits
        /\ response.body.confidence >= 0
        /\ response.body.confidence <= UnitsPerOne
        /\ response.body.confidence % Thousandth = 0

\* C3: with a classifier present that returns ten scores, the prediction is
\* the lowest index holding the maximum score and the confidence is the
\* score at that index rounded to three decimal places.
ArgmaxLowestIndex ==
    (ValidPredict /\ model # None /\ ~InferRaises(model, Tensor)) =>
        /\ response.status = "ok"
        /\ response.body.prediction \in Digits
        /\ LET preds == Infer(model, Tensor)
               d == response.body.prediction
           IN  /\ \A k \in Digits : preds[k] <= preds[d]
               /\ \A k \in Digits : k < d => preds[k] < preds[d]
               /\ IsRounded3(preds[d], response.body.confidence)

ArgmaxLowestIndexWitness ==
    /\ ValidPredict
    /\ model # None
    /\ response.status = "ok"
    /\ \E k \in Digits :
         /\ k > response.body.prediction
         /\ Infer(model, Tensor)[k] = Infer(model, Tensor)[response.body.prediction]
         /\ Infer(model, Tensor)[k] > 0

\* C4: with no classifier loaded, every 784-pixel predict request is answered
\* with confidence 0.99 and a prediction in 0..9, and for whatever pixels are
\* submitted each of the ten digits is a possible answer.
FallbackLaw ==
    (pc = "serving" /\ model = None) =>
        /\ ValidPredict =>
             /\ response.status = "ok"
             /\ response.body.confidence = 99 * (UnitsPerOne \div 100)
             /\ response.body.prediction \in Digits
        /\ \A body \in PredictBodies : \A d \in Digits :
             Len(body.pixels) = 784 =>
                 ENABLED (Predict(body) /\ response'.body.prediction = d)

FallbackLawWitness ==
    /\ ValidPredict
    /\ model = None
    /\ response.status = "ok"
    /\ response.body.prediction = 9
    /\ steps = <<"reshape", "fallback">>

\* C5: for every structurally valid feedback record r, the feedback response
\* carries data equal to r field for field (an absent correct_digit as null)
\* and the fixed message "Feedback received successfully".
FeedbackEchoes ==
    (IsFeedback /\ {"pixels", "predicted_digit", "correct"} \subseteq DOMAIN request.body) =>
        /\ response.status = "ok"
        /\ response.body.message = "Feedback received successfully"
        /\ response.body.data.pixels = request.body.pixels
        /\ response.body.data.predicted_digit = request.body.predicted_digit
        /\ response.body.data.correct = request.body.correct
        /\ response.body.data.correct_digit =
             (IF "correct_digit" \in DOMAIN request.body
              THEN request.body.correct_digit ELSE <<>>)

\* C6: a structurally valid feedback request is acknowledged with success
\* even when a storage step of the handler (creating the data directory)
\* fails.
FeedbackSurvivesStorageFailure ==
    (/\ IsFeedback
     /\ {"pixels", "predicted_digit", "correct"} \subseteq DOMAIN request.body
     /\ dataPath = "unwritable") =>
        response.status = "ok"

\* C7: when loading the model artifact fails, startup still completes with
\* the classifier reference absent, and every later 784-pixel predict request
\* is answered successfully by the fallback branch.
LoadFailureFallsBack ==
    (artifact \in {"missing", "corrupt"} /\ pc # "loading") =>
        /\ pc = "serving"
        /\ model = None
        /\ ValidPredict =>
             /\ response.status = "ok"
             /\ steps = <<"reshape", "fallback">>

LoadFailureFallsBackWitness ==
    /\ artifact = "corrupt"
    /\ pc = "serving"
    /\ ValidPredict
    /\ response.status = "ok"

\* C8: when the classifier is present and its inference raises on a
\* 784-pixel request, the request ends in a server error and the fallback
\* branch is not taken; the fallback runs only when no classifier was loaded.
InferenceFailureNotMasked ==
    /\ (ValidPredict /\ model # None /\ InferRaises(model, Tensor)) =>
           /\ response.status = "server_error"
           /\ steps = <<"reshape", "infer">>
    /\ (\E i \in DOMAIN steps : steps[i] = "fallback") =>
           (model = None /\ artifact \notin Classifiers)

InferenceFailureNotMaskedWitness ==
    /\ ValidPredict
    /\ model # None
    /\ InferRaises(model, Tensor)
    /\ response.status = "server_error"

\* C9: with a loaded classifier, all answers given to the same 784-pixel
\* input are identical, whatever requests were handled before or in between.
RepeatedCallsAgree ==
    /\ \A a \in inferred : \A b \in inferred : a[1] = b[1] => a[2] = b[2]
    /\ (ValidPredict /\ model # None) =>
           \E h \in inferred : h[1] = request.body.pixels /\ h[2] = response

RepeatedCallsAgreeWitness ==
    /\ ValidPredict
    /\ response.status = "ok"
    /\ \E h \in inferred : h[1] = request.body.pixels /\ h[3] = 2
    /\ \E h \in inferred : h[1] # request.body.pixels
    /\ dataPath = "dir"

\* C10: once startup is over the classifier reference never changes, and it
\* is only ever absent or the classifier that startup loaded.
ModelSetOnce ==
    [][/\ pc = "serving" => model' = model
       /\ model' # model => (pc = "loading" /\ model = None /\ model' = artifact)]_vars

ModelSetOnceWitness ==
    /\ pc = "serving"
    /\ model = artifact
    /\ IsPredict
    /\ response.status = "server_error"
    /\ inferred # {}

====
